---- MODULE Spec2Model ----
(***************************************************************************)
(* Model of the attendance page: the append-once write protocol on the     *)
(* attendance sheet (append_once), the attendance-code store (the          *)
(* admin_code_form save handler, safe_append_row, get_latest_code) and     *)
(* the attendance form's submit handler.                                   *)
(*                                                                         *)
(* A thread is one script run of a session; it performs one operation.     *)
(* A remote call to the spreadsheet either succeeds or raises; which *)
(* exception it raises is a choice of the environment among the kinds the  *)
(* except clauses of the code distinguish.                                 *)
(***************************************************************************)
EXTENDS Integers, Sequences, FiniteSets, TLC

\* ------------------------------------------------------------------ bounds
\* Number of script runs that call append_once or submit the form.
MaxCalls == 2
\* Number of script runs of a scenario that rotates and reads the code.
MaxCodeCalls == 3
\* The max_retries argument of append_once / safe_append_row (12 by default
\* in the code; the retry loop is uniform in it).
MaxRetries == 2

\* A thread is one script run of some session.
Threads == 1..MaxCodeCalls

\* ------------------------------------------------------------- value sets
\* Names and day strings are character sequences, so that strip() and the
\* concatenation in daily_token are computed.
Names == {<<"k">>, <<"l">>}
Days == {<<"1">>}
\* The two values of the status radio: present and absent.
Statuses == {"PRESENT", "ABSENT"}

\* Attendance codes are character sequences, so that strip() is computed.
SP == " "
Codes == {<<>>, <<SP>>, <<"1">>, <<"2">>}

\* Exception kinds a remote call can raise, as the except clauses see them.
ApiTransient == "APIError_transient"
ApiPermanent == "APIError_other"
Network == "RequestException"
Other == "Exception"
ErrKinds == {ApiTransient, ApiPermanent, Network, Other}

NoThread == 0
Miss == "miss"
NoneIdx == "None"
TokenCol == "col"
\* Observer of code rotations: none yet, the first one running, the first
\* one ended with success, or Many once a second one has started.
NoRotation == "none"
Started == "started"
Succeeded == "succeeded"
Many == "many"

VARIABLES
  sheet,      \* data rows of the attendance worksheet, in order
  codeSheet,  \* rows of the code worksheet; row 1 holds cell A1
  lock,       \* holder of sheet_lock, or NoThread
  cache,      \* st.cache_data: [col, code, tokens, df, penalties]
  pc,         \* position of each thread
  op,         \* the operation each thread runs
  values,     \* the row values given to append_once / safe_append_row
  attempt,    \* loop variable of the retry loop
  local,      \* local variables of the running function
  scr,        \* variables of the handler: input_code, saved_code
  ret,        \* return value of the function called
  msg,        \* what the handler shows to the user
  err,        \* kind of the last exception the retry loop caught
  obs,        \* observer: [faults, rot, last_ok, last_code, acq, writers]
  tobs,       \* observer of each thread's call: [wrote, skipped, ...]
  sheet_penalty,  \* data rows of the penalty worksheet, in order
  penalty_lock    \* holder of the penalty page's sheet_lock, or NoThread

vars == <<sheet, codeSheet, lock, cache, pc, op, values, attempt, local,
          scr, ret, msg, err, obs, tobs, sheet_penalty, penalty_lock>>

\* -------------------------------------------------------------- functions
RECURSIVE lstrip(_)
lstrip(s) == IF s # <<>> /\ Head(s) = SP THEN lstrip(Tail(s)) ELSE s

RECURSIVE rstrip(_)
rstrip(s) ==
  IF s # <<>> /\ s[Len(s)] = SP THEN rstrip(SubSeq(s, 1, Len(s) - 1)) ELSE s

\* str.strip()
strip(s) == rstrip(lstrip(s))

\* Mutant: the name goes into the digest as typed.
daily_token_unstripped(name, date_str) == name \o <<"|">> \o date_str

\* daily_token: base = f"{name.strip()}|{date_str}", then the first 8 hex
\* characters of sha1(base).  The digest stands for the text it is computed
\* from: equal texts give equal tokens, and different texts different
\* tokens but for a collision of the truncated hash.
daily_token(name, date_str) == strip(name) \o <<"|">> \o date_str

Tokens == {daily_token(n, d) : n \in Names, d \in Days}

\* Attendance rows: [status, token] (the token is values[-1]).
Rows == [status : Statuses, token : Tokens]

\* The rows given to append_once when it is called directly; append_once
\* reads nothing of a row but its token.
AppendInputs == [status : {"ABSENT"}, token : Tokens]

\* Tokens of the sheet's rows: what col_values / get_all_records yield.
SheetTokens == {sheet[i].token : i \in 1..Len(sheet)}

\* code_sheet.acell("A1").value or ""
A1 == IF Len(codeSheet) = 0 THEN <<>> ELSE codeSheet[1].code

\* st.cache_data.clear()
\* The entry of existing_tokens is the set of the cached results: empty, or
\* the one token set that is cached.
CacheCleared ==
  [col |-> Miss, code |-> Miss, tokens |-> {}, df |-> {}, penalties |-> {}]

\* read_ok: observer, whether the token read of the attempt succeeded.
NoLocal ==
  [col_idx |-> NoneIdx, tokens |-> {}, value |-> <<>>, read_ok |-> TRUE]
NoScr == [input_code |-> <<>>, saved_code |-> <<>>, compared |-> FALSE]
\* Observer at the start. acq lists, in the order of their lock
\* acquisitions, the threads whose append_once attempt holds the lock or
\* has appended; writers lists the threads in the order of their appends.
NoObs ==
  [faults |-> FALSE, rot |-> NoRotation, last_ok |-> FALSE,
   last_code |-> <<>>, acq |-> <<>>, writers |-> <<>>]
NoTobs ==
  [wrote |-> 0, skipped |-> FALSE, transient_only |-> TRUE, after |-> FALSE,
   rows_before |-> <<>>]

\* ------------------------------------------------------------------- Init
Init ==
  /\ sheet = <<>>
  /\ codeSheet = <<>>
  /\ lock = NoThread
  /\ cache = CacheCleared
  /\ pc = [t \in Threads |-> "idle"]
  /\ op = [t \in Threads |-> "none"]
  /\ values = [t \in Threads |-> <<>>]
  /\ attempt = [t \in Threads |-> 0]
  /\ local = [t \in Threads |-> NoLocal]
  /\ scr = [t \in Threads |-> NoScr]
  /\ ret = [t \in Threads |-> "none"]
  /\ msg = [t \in Threads |-> "none"]
  /\ err = [t \in Threads |-> "none"]
  /\ obs = NoObs
  /\ tobs = [t \in Threads |-> NoTobs]
  /\ sheet_penalty = <<>>
  /\ penalty_lock = NoThread

\* The page started on an attendance sheet that may already hold a row
\* written by an earlier process.
InitRetry ==
  /\ sheet \in {<<>>} \cup {<<r>> : r \in AppendInputs}
  /\ codeSheet = <<>>
  /\ lock = NoThread
  /\ cache = CacheCleared
  /\ pc = [t \in Threads |-> "idle"]
  /\ op = [t \in Threads |-> "none"]
  /\ values = [t \in Threads |-> <<>>]
  /\ attempt = [t \in Threads |-> 0]
  /\ local = [t \in Threads |-> NoLocal]
  /\ scr = [t \in Threads |-> NoScr]
  /\ ret = [t \in Threads |-> "none"]
  /\ msg = [t \in Threads |-> "none"]
  /\ err = [t \in Threads |-> "none"]
  /\ obs = NoObs
  /\ tobs = [t \in Threads |-> NoTobs]
  /\ sheet_penalty = <<>>
  /\ penalty_lock = NoThread

\* ------------------------------------------------------------ retry loop
\* Mutant: an APIError is handled like any other exception.
OnExceptionRetriesAll(k, a) == IF a < MaxRetries THEN "sleep" ELSE "False"

\* The except clauses of the retry loop, the same in append_once and
\* safe_append_row: what follows exception kind k caught on attempt a.
\*   APIError: transient and a < max_retries -> sleep, continue; else raise
\*   Timeout/ConnectionError/RequestException, and any other Exception:
\*     a < max_retries -> sleep, continue; else return False
OnException(k, a) ==
  CASE k = ApiTransient -> IF a < MaxRetries THEN "sleep" ELSE "raise"
    [] k = ApiPermanent -> "raise"
    [] k = Network -> IF a < MaxRetries THEN "sleep" ELSE "False"
    [] k = Other -> IF a < MaxRetries THEN "sleep" ELSE "False"

\* Kinds the failure classifier counts as transient.
IsTransient(k) == k \in {ApiTransient, Network}

\* seq without the entries equal to t.
Without(seq, t) == SelectSeq(seq, LAMBDA x : x # t)

\* Observer update on a caught exception.
Caught(t, k) ==
  /\ err' = [err EXCEPT ![t] = k]
  /\ obs' = [obs EXCEPT !.faults = TRUE, !.acq = Without(@, t)]
  /\ tobs' = [tobs EXCEPT ![t].transient_only = @ /\ IsTransient(k)]

\* ------------------------------------------------------------ append_once
\* A thread calls append_once(sheet, row): delay = 0.6, attempt = 1.
CallAppendOnce(t) ==
  /\ pc[t] = "idle"
  /\ \E row \in AppendInputs : values' = [values EXCEPT ![t] = row]
  /\ op' = [op EXCEPT ![t] = "append_once"]
  /\ pc' = [pc EXCEPT ![t] = "ao_lock"]
  /\ attempt' = [attempt EXCEPT ![t] = 1]
  /\ UNCHANGED <<sheet, codeSheet, lock, cache, local, scr, ret, msg, err, obs,
                 tobs, sheet_penalty, penalty_lock>>

\* Where append_once returns to: the submit handler, or the direct caller.
AfterAppendOnce(t) == IF op[t] = "submit" THEN "sb_result" ELSE "done"

\* Mutant: the with block does not wait for the lock.
AoAcquireNoLock(t) ==
  /\ pc[t] = "ao_lock"
  /\ lock' = t
  /\ pc' = [pc EXCEPT ![t] = "ao_col"]
  /\ obs' = [obs EXCEPT !.acq = Append(@, t)]
  /\ UNCHANGED <<sheet, codeSheet, cache, op, values, attempt, local, scr, ret,
                 msg, err, tobs, sheet_penalty, penalty_lock>>

\* with sheet_lock:  (blocks until the lock is free)
AoAcquire(t) ==
  /\ pc[t] = "ao_lock"
  /\ lock = NoThread
  /\ lock' = t
  /\ pc' = [pc EXCEPT ![t] = "ao_col"]
  /\ obs' = [obs EXCEPT !.acq = Append(@, t)]
  /\ UNCHANGED <<sheet, codeSheet, cache, op, values, attempt, local, scr, ret,
                 msg, err, tobs, sheet_penalty, penalty_lock>>

\* _get_token_col_index (cached, ttl=600): a hit returns the cached index;
\* a miss runs ws.find of the token header, whose failure is swallowed
\* into None, and caches what it returns.
AoColIndex(t) ==
  /\ pc[t] = "ao_col"
  /\ IF cache.col # Miss
       THEN /\ local' = [local EXCEPT ![t].col_idx = cache.col]
            /\ UNCHANGED <<cache, obs, sheet_penalty, penalty_lock>>
       ELSE \E found \in {TokenCol, NoneIdx} :
              /\ local' = [local EXCEPT ![t].col_idx = found]
              /\ cache' = [cache EXCEPT !.col = found]
              /\ obs' = [obs EXCEPT !.faults = @ \/ found = NoneIdx]
  /\ pc' = [pc EXCEPT ![t] = "ao_read"]
  /\ UNCHANGED <<sheet, codeSheet, lock, op, values, attempt, scr, ret, msg,
                 err, tobs, sheet_penalty, penalty_lock>>

\* Mutant: a failed read is taken as every token being present.
ReadTokensResultAll(ok) == IF ok THEN SheetTokens ELSE Tokens

\* What _read_tokens_fresh returns: the sheet's tokens when the read (the
\* token column, or all records when there is no column index) succeeds,
\* set() when it raises.
ReadTokensResult(ok) == IF ok THEN SheetTokens ELSE {}

\* Mutant: the tokens are read before the with block, so the lock is not
\* held between the read and the append.
AoReadTokensFreesLock(t) ==
  /\ pc[t] = "ao_read"
  /\ \E ok \in BOOLEAN :
       /\ local' = [local EXCEPT ![t].tokens = ReadTokensResult(ok),
                                 ![t].col_idx = NoneIdx,
                                 ![t].read_ok = ok]
       /\ obs' = [obs EXCEPT !.faults = @ \/ ~ok]
  /\ lock' = NoThread
  /\ pc' = [pc EXCEPT ![t] = "ao_check"]
  /\ UNCHANGED <<sheet, codeSheet, cache, op, values, attempt, scr, ret, msg,
                 err, tobs, sheet_penalty, penalty_lock>>

\* tokens = _read_tokens_fresh(ws)
AoReadTokens(t) ==
  /\ pc[t] = "ao_read"
  /\ \E ok \in BOOLEAN :
       /\ local' = [local EXCEPT ![t].tokens = ReadTokensResult(ok),
                                 ![t].col_idx = NoneIdx,
                                 ![t].read_ok = ok]
       /\ obs' = [obs EXCEPT !.faults = @ \/ ~ok]
  /\ pc' = [pc EXCEPT ![t] = "ao_check"]
  /\ UNCHANGED <<sheet, codeSheet, lock, cache, op, values, attempt, scr, ret,
                 msg, err, tobs, sheet_penalty, penalty_lock>>

\* token in tokens
TokenFound(t) == values[t].token \in local[t].tokens

\* Mutant: the row is appended although its token was found.
AoDuplicateWrites(t) ==
  /\ pc[t] = "ao_check"
  /\ TokenFound(t)
  /\ sheet' = Append(sheet, values[t])
  /\ ret' = [ret EXCEPT ![t] = "True"]
  /\ lock' = NoThread
  /\ pc' = [pc EXCEPT ![t] = AfterAppendOnce(t)]
  /\ local' = [local EXCEPT ![t] = NoLocal]
  /\ tobs' = [tobs EXCEPT ![t].skipped = TRUE, ![t].wrote = @ + 1]
  /\ obs' = [obs EXCEPT !.writers = Append(@, t)]
  /\ UNCHANGED <<codeSheet, cache, op, values, attempt, scr, msg, err,
                 sheet_penalty, penalty_lock>>

\* Mutant: the row that carries the token is overwritten with the new
\* values (an upsert).
AoDuplicateUpdatesRow(t) ==
  /\ pc[t] = "ao_check"
  /\ TokenFound(t)
  /\ sheet' = [i \in 1..Len(sheet) |->
                IF sheet[i].token = values[t].token THEN values[t]
                                                    ELSE sheet[i]]
  /\ ret' = [ret EXCEPT ![t] = "True"]
  /\ lock' = NoThread
  /\ pc' = [pc EXCEPT ![t] = AfterAppendOnce(t)]
  /\ local' = [local EXCEPT ![t] = NoLocal]
  /\ tobs' = [tobs EXCEPT ![t].skipped = TRUE]
  /\ obs' = [obs EXCEPT !.acq = Without(@, t)]
  /\ UNCHANGED <<codeSheet, cache, op, values, attempt, scr, msg, err,
                 sheet_penalty, penalty_lock>>

\* if token in tokens: return True   (leaving the with block frees the lock)
AoDuplicate(t) ==
  /\ pc[t] = "ao_check"
  /\ TokenFound(t)
  /\ ret' = [ret EXCEPT ![t] = "True"]
  /\ lock' = NoThread
  /\ pc' = [pc EXCEPT ![t] = AfterAppendOnce(t)]
  /\ local' = [local EXCEPT ![t] = NoLocal]
  /\ tobs' = [tobs EXCEPT ![t].skipped = TRUE]
  /\ obs' = [obs EXCEPT !.acq = Without(@, t)]
  /\ UNCHANGED <<sheet, codeSheet, cache, op, values, attempt, scr, msg, err,
                 sheet_penalty, penalty_lock>>

\* Mutant: after a successful append the loop does not return but goes on
\* to the next attempt.
AoAppendOkNoReturn(t) ==
  /\ pc[t] = "ao_check"
  /\ ~TokenFound(t)
  /\ sheet' = Append(sheet, values[t])
  /\ tobs' = [tobs EXCEPT ![t].wrote = @ + 1]
  /\ cache' = CacheCleared
  /\ lock' = NoThread
  /\ local' = [local EXCEPT ![t] = NoLocal]
  /\ IF attempt[t] < MaxRetries
       THEN /\ pc' = [pc EXCEPT ![t] = "ao_sleep"]
            /\ UNCHANGED ret
       ELSE /\ pc' = [pc EXCEPT ![t] = AfterAppendOnce(t)]
            /\ ret' = [ret EXCEPT ![t] = "False"]
  /\ obs' = [obs EXCEPT !.writers = Append(@, t)]
  /\ UNCHANGED <<codeSheet, op, values, attempt, scr, msg, err, sheet_penalty,
                 penalty_lock>>

\* Mutant: the row is inserted above the rows of the sheet instead of
\* being appended below them.
AoAppendOkInsertsFirst(t) ==
  /\ pc[t] = "ao_check"
  /\ ~TokenFound(t)
  /\ sheet' = <<values[t]>> \o sheet
  /\ tobs' = [tobs EXCEPT ![t].wrote = @ + 1]
  /\ cache' = CacheCleared
  /\ ret' = [ret EXCEPT ![t] = "True"]
  /\ lock' = NoThread
  /\ pc' = [pc EXCEPT ![t] = AfterAppendOnce(t)]
  /\ local' = [local EXCEPT ![t] = NoLocal]
  /\ obs' = [obs EXCEPT !.writers = Append(@, t)]
  /\ UNCHANGED <<codeSheet, op, values, attempt, scr, msg, err, sheet_penalty,
                 penalty_lock>>

\* ws.append_row(values) succeeds; st.cache_data.clear(); return True
AoAppendOk(t) ==
  /\ pc[t] = "ao_check"
  /\ ~TokenFound(t)
  /\ sheet' = Append(sheet, values[t])
  /\ tobs' = [tobs EXCEPT ![t].wrote = @ + 1]
  /\ cache' = CacheCleared
  /\ ret' = [ret EXCEPT ![t] = "True"]
  /\ lock' = NoThread
  /\ pc' = [pc EXCEPT ![t] = AfterAppendOnce(t)]
  /\ local' = [local EXCEPT ![t] = NoLocal]
  /\ obs' = [obs EXCEPT !.writers = Append(@, t)]
  /\ UNCHANGED <<codeSheet, op, values, attempt, scr, msg, err, sheet_penalty,
                 penalty_lock>>

\* Mutant: the lock is taken with acquire() and released only after a
\* successful append, so an exception leaves it held.
AoAppendFailKeepsLock(t) ==
  /\ pc[t] = "ao_check"
  /\ ~TokenFound(t)
  /\ \E k \in ErrKinds :
       /\ Caught(t, k)
       /\ IF OnException(k, attempt[t]) = "sleep"
            THEN /\ pc' = [pc EXCEPT ![t] = "ao_sleep"]
                 /\ UNCHANGED ret
            ELSE /\ pc' = [pc EXCEPT ![t] = AfterAppendOnce(t)]
                 /\ ret' = [ret EXCEPT ![t] = OnException(k, attempt[t])]
  /\ local' = [local EXCEPT ![t] = NoLocal]
  /\ UNCHANGED <<sheet, codeSheet, lock, cache, op, values, attempt, scr, msg,
                 sheet_penalty, penalty_lock>>

\* ws.append_row raises k: the with block frees the lock and the except
\* clause for k runs.
AoAppendFail(t) ==
  /\ pc[t] = "ao_check"
  /\ ~TokenFound(t)
  /\ \E k \in ErrKinds :
       /\ Caught(t, k)
       /\ IF OnException(k, attempt[t]) = "sleep"
            THEN /\ pc' = [pc EXCEPT ![t] = "ao_sleep"]
                 /\ UNCHANGED ret
            ELSE /\ pc' = [pc EXCEPT ![t] = AfterAppendOnce(t)]
                 /\ ret' = [ret EXCEPT ![t] = OnException(k, attempt[t])]
  /\ lock' = NoThread
  /\ local' = [local EXCEPT ![t] = NoLocal]
  /\ UNCHANGED <<sheet, codeSheet, cache, op, values, attempt, scr, msg,
                 sheet_penalty, penalty_lock>>

\* Mutant: the loop variable does not advance (a while loop that retries
\* without counting).
AoSleepKeepsAttempt(t) ==
  /\ pc[t] = "ao_sleep"
  /\ err' = [err EXCEPT ![t] = "none"]
  /\ pc' = [pc EXCEPT ![t] = "ao_lock"]
  /\ UNCHANGED <<sheet, codeSheet, lock, cache, op, values, attempt, local,
                 scr, ret, msg, obs, tobs, sheet_penalty, penalty_lock>>

\* time.sleep(delay + jitter); continue  (the except clause ends, the
\* next attempt starts)
AoSleep(t) ==
  /\ pc[t] = "ao_sleep"
  /\ attempt' = [attempt EXCEPT ![t] = @ + 1]
  /\ err' = [err EXCEPT ![t] = "none"]
  /\ pc' = [pc EXCEPT ![t] = "ao_lock"]
  /\ UNCHANGED <<sheet, codeSheet, lock, cache, op, values, local, scr, ret,
                 msg, obs, tobs, sheet_penalty, penalty_lock>>

AppendOnce(t) ==
  \/ AoAcquire(t)
  \/ AoColIndex(t)
  \/ AoReadTokens(t)
  \/ AoDuplicate(t)
  \/ AoAppendOk(t)
  \/ AoAppendFail(t)
  \/ AoSleep(t)

\* A cache entry's TTL runs out.
CacheExpire ==
  /\ \/ \E f \in {"col", "code"} :
          /\ cache[f] # Miss
          /\ cache' = [cache EXCEPT ![f] = Miss]
     \/ \E f \in {"tokens", "df", "penalties"} :
          /\ cache[f] # {}
          /\ cache' = [cache EXCEPT ![f] = {}]
  /\ UNCHANGED <<sheet, codeSheet, lock, pc, op, values, attempt, local, scr,
                 ret, msg, err, obs, tobs, sheet_penalty, penalty_lock>>

\* -------------------------------------------------------- existing_tokens
\* A script run calls existing_tokens(ws, SHEET_KEY).
CallExistingTokens(t) ==
  /\ pc[t] = "idle"
  /\ op' = [op EXCEPT ![t] = "existing_tokens"]
  /\ pc' = [pc EXCEPT ![t] = "ex_call"]
  /\ UNCHANGED <<sheet, codeSheet, lock, cache, values, attempt, local, scr,
                 ret, msg, err, obs, tobs, sheet_penalty, penalty_lock>>

\* @st.cache_data(ttl=30): a hit returns the cached set.
ExHit(t) ==
  /\ pc[t] = "ex_call"
  /\ cache.tokens # {}
  /\ ret' = [ret EXCEPT ![t] = CHOOSE s \in cache.tokens : TRUE]
  /\ pc' = [pc EXCEPT ![t] = "done"]
  /\ UNCHANGED <<sheet, codeSheet, lock, cache, op, values, attempt, local,
                 scr, msg, err, obs, tobs, sheet_penalty, penalty_lock>>

\* A miss runs the function body.
ExMiss(t) ==
  /\ pc[t] = "ex_call"
  /\ cache.tokens = {}
  /\ pc' = [pc EXCEPT ![t] = "ex_col"]
  /\ UNCHANGED <<sheet, codeSheet, lock, cache, op, values, attempt, local,
                 scr, ret, msg, err, obs, tobs, sheet_penalty, penalty_lock>>

\* col_idx = _get_token_col_index(_ws, sheet_key): as in AoColIndex.
ExColIndex(t) ==
  /\ pc[t] = "ex_col"
  /\ IF cache.col # Miss
       THEN /\ local' = [local EXCEPT ![t].col_idx = cache.col]
            /\ UNCHANGED <<cache, obs, sheet_penalty, penalty_lock>>
       ELSE \E found \in {TokenCol, NoneIdx} :
              /\ local' = [local EXCEPT ![t].col_idx = found]
              /\ cache' = [cache EXCEPT !.col = found]
              /\ obs' = [obs EXCEPT !.faults = @ \/ found = NoneIdx]
  /\ pc' = [pc EXCEPT ![t] = "ex_read"]
  /\ UNCHANGED <<sheet, codeSheet, lock, op, values, attempt, scr, ret, msg,
                 err, tobs, sheet_penalty, penalty_lock>>

\* What the body of existing_tokens yields: with a column index the token
\* column is read, without one all records are read; either read yields
\* the sheet's tokens, and set() when it raises (except Exception).
ExistingTokensResult(col_idx, ok) ==
  IF col_idx # NoneIdx
    THEN (IF ok THEN SheetTokens ELSE {})
    ELSE (IF ok THEN SheetTokens ELSE {})

\* vals = _ws.col_values(col_idx)[1:]  /  records = _ws.get_all_records()
ExRead(t) ==
  /\ pc[t] = "ex_read"
  /\ \E ok \in BOOLEAN :
       /\ local' = [local EXCEPT
                      ![t].tokens = ExistingTokensResult(local[t].col_idx, ok)]
       /\ obs' = [obs EXCEPT !.faults = @ \/ ~ok]
       /\ err' = [err EXCEPT ![t] = IF ok THEN "none" ELSE Other]
  /\ pc' = [pc EXCEPT ![t] = "ex_store"]
  /\ UNCHANGED <<sheet, codeSheet, lock, cache, op, values, attempt, scr, ret,
                 msg, tobs, sheet_penalty, penalty_lock>>

\* The set the body returned is stored in the cache and returned.
ExStore(t) ==
  /\ pc[t] = "ex_store"
  /\ cache' = [cache EXCEPT !.tokens = {local[t].tokens}]
  /\ ret' = [ret EXCEPT ![t] = local[t].tokens]
  /\ local' = [local EXCEPT ![t] = NoLocal]
  /\ err' = [err EXCEPT ![t] = "none"]
  /\ pc' = [pc EXCEPT ![t] = "done"]
  /\ UNCHANGED <<sheet, codeSheet, lock, op, values, attempt, scr, msg, obs,
                 tobs, sheet_penalty, penalty_lock>>

ExistingTokens(t) ==
  \/ ExHit(t)
  \/ ExMiss(t)
  \/ ExColIndex(t)
  \/ ExRead(t)
  \/ ExStore(t)

\* -------------------------------------------- admin_code_form save handler
\* The codes the admin may type: any text; the handler acts only when
\* code_input.strip() != "".
CallSetCode(t) ==
  /\ pc[t] = "idle"
  /\ \E code_input \in Codes :
       /\ strip(code_input) # <<>>
       /\ values' = [values EXCEPT ![t] = [code |-> code_input]]
  /\ op' = [op EXCEPT ![t] = "set_code"]
  /\ pc' = [pc EXCEPT ![t] = "sc_lock"]
  /\ obs' = [obs EXCEPT !.rot = IF @ = NoRotation THEN Started ELSE Many]
  /\ tobs' = [tobs EXCEPT ![t].rows_before = codeSheet]
  /\ UNCHANGED <<sheet, codeSheet, lock, cache, attempt, local, scr, ret, msg,
                 err, sheet_penalty, penalty_lock>>

\* Mutant: code_sheet.clear() is called without taking the lock first.
ScAcquireNoLock(t) ==
  /\ pc[t] = "sc_lock"
  /\ lock' = lock
  /\ pc' = [pc EXCEPT ![t] = "sc_clear"]
  /\ UNCHANGED <<sheet, codeSheet, cache, op, values, attempt, local, scr, ret,
                 msg, err, obs, tobs, sheet_penalty, penalty_lock>>

\* with sheet_lock:
ScAcquire(t) ==
  /\ pc[t] = "sc_lock"
  /\ lock = NoThread
  /\ lock' = t
  /\ pc' = [pc EXCEPT ![t] = "sc_clear"]
  /\ UNCHANGED <<sheet, codeSheet, cache, op, values, attempt, local, scr, ret,
                 msg, err, obs, tobs, sheet_penalty, penalty_lock>>

\* code_sheet.clear() succeeds; the with block frees the lock; the handler
\* goes on to safe_append_row(code_sheet, [code_input, now]): attempt = 1.
ScClearOk(t) ==
  /\ pc[t] = "sc_clear"
  /\ codeSheet' = <<>>
  /\ lock' = NoThread
  /\ attempt' = [attempt EXCEPT ![t] = 1]
  /\ pc' = [pc EXCEPT ![t] = "sa_lock"]
  /\ UNCHANGED <<sheet, cache, op, values, local, scr, ret, msg, err, obs,
                 tobs, sheet_penalty, penalty_lock>>

\* code_sheet.clear() raises: nothing in the handler catches it.
ScClearFail(t) ==
  /\ pc[t] = "sc_clear"
  /\ lock' = NoThread
  /\ msg' = [msg EXCEPT ![t] = "exception"]
  /\ obs' = [obs EXCEPT !.faults = TRUE, !.last_ok = FALSE,
                        !.last_code = values[t].code]
  /\ pc' = [pc EXCEPT ![t] = "done"]
  /\ UNCHANGED <<sheet, codeSheet, cache, op, values, attempt, local, scr, ret,
                 err, tobs, sheet_penalty, penalty_lock>>

\* -------------------------------------------------------- safe_append_row
\* with sheet_lock:
SaAcquire(t) ==
  /\ pc[t] = "sa_lock"
  /\ lock = NoThread
  /\ lock' = t
  /\ pc' = [pc EXCEPT ![t] = "sa_append"]
  /\ UNCHANGED <<sheet, codeSheet, cache, op, values, attempt, local, scr, ret,
                 msg, err, obs, tobs, sheet_penalty, penalty_lock>>

\* ws.append_row(row_values) succeeds: the row lands after the sheet's last
\* row; return True.
SaAppendOk(t) ==
  /\ pc[t] = "sa_append"
  /\ codeSheet' = Append(codeSheet, values[t])
  /\ tobs' = [tobs EXCEPT ![t].wrote = @ + 1]
  /\ ret' = [ret EXCEPT ![t] = "True"]
  /\ lock' = NoThread
  /\ pc' = [pc EXCEPT ![t] = "sc_result"]
  /\ UNCHANGED <<sheet, cache, op, values, attempt, local, scr, msg, err, obs,
                 sheet_penalty, penalty_lock>>

\* ws.append_row raises k: the with block frees the lock and the except
\* clause for k runs.
SaAppendFail(t) ==
  /\ pc[t] = "sa_append"
  /\ \E k \in ErrKinds :
       /\ Caught(t, k)
       /\ IF OnException(k, attempt[t]) = "sleep"
            THEN /\ pc' = [pc EXCEPT ![t] = "sa_sleep"]
                 /\ UNCHANGED ret
            ELSE /\ pc' = [pc EXCEPT ![t] = "sc_result"]
                 /\ ret' = [ret EXCEPT ![t] = OnException(k, attempt[t])]
  /\ lock' = NoThread
  /\ UNCHANGED <<sheet, codeSheet, cache, op, values, attempt, local, scr, msg,
                 sheet_penalty, penalty_lock>>

\* time.sleep(delay + jitter); continue
SaSleep(t) ==
  /\ pc[t] = "sa_sleep"
  /\ attempt' = [attempt EXCEPT ![t] = @ + 1]
  /\ err' = [err EXCEPT ![t] = "none"]
  /\ pc' = [pc EXCEPT ![t] = "sa_lock"]
  /\ UNCHANGED <<sheet, codeSheet, lock, cache, op, values, local, scr, ret,
                 msg, obs, tobs, sheet_penalty, penalty_lock>>

\* if ok: st.cache_data.clear(); st.success(...)   else: st.error(...)
\* An exception out of safe_append_row ends the handler before either.
ScResult(t) ==
  /\ pc[t] = "sc_result"
  /\ CASE ret[t] = "True" ->
            /\ cache' = CacheCleared
            /\ msg' = [msg EXCEPT ![t] = "success"]
            /\ obs' = [obs EXCEPT
                        !.rot = IF @ = Started THEN Succeeded ELSE @,
                        !.last_ok = TRUE, !.last_code = values[t].code]
       [] ret[t] = "False" ->
            /\ msg' = [msg EXCEPT ![t] = "error"]
            /\ obs' = [obs EXCEPT !.last_ok = FALSE,
                                  !.last_code = values[t].code]
            /\ UNCHANGED cache
       [] OTHER ->
            /\ msg' = [msg EXCEPT ![t] = "exception"]
            /\ obs' = [obs EXCEPT !.last_ok = FALSE,
                                  !.last_code = values[t].code]
            /\ UNCHANGED cache
  /\ pc' = [pc EXCEPT ![t] = "done"]
  /\ UNCHANGED <<sheet, codeSheet, lock, op, values, attempt, local, scr, ret,
                 err, tobs, sheet_penalty, penalty_lock>>

SetCode(t) ==
  \/ ScAcquire(t)
  \/ ScClearOk(t)
  \/ ScClearFail(t)
  \/ SaAcquire(t)
  \/ SaAppendOk(t)
  \/ SaAppendFail(t)
  \/ SaSleep(t)
  \/ ScResult(t)

\* -------------------------------------------------------- get_latest_code
\* A script run calls get_latest_code() (the form does, when it renders).
CallGetLatestCode(t) ==
  /\ pc[t] = "idle"
  /\ op' = [op EXCEPT ![t] = "get_latest_code"]
  /\ pc' = [pc EXCEPT ![t] = "gl_call"]
  /\ tobs' = [tobs EXCEPT ![t].after = (obs.rot = Succeeded)]
  /\ UNCHANGED <<sheet, codeSheet, lock, cache, values, attempt, local, scr,
                 ret, msg, err, obs, sheet_penalty, penalty_lock>>

\* Where get_latest_code returns to: the submit handler, or the caller.
AfterGetLatestCode(t) == IF op[t] = "submit" THEN "sb_compare" ELSE "done"

\* @st.cache_data(ttl=60): a hit returns the cached value.
GlHit(t) ==
  /\ pc[t] = "gl_call"
  /\ cache.code # Miss
  /\ ret' = [ret EXCEPT ![t] = cache.code]
  /\ pc' = [pc EXCEPT ![t] = AfterGetLatestCode(t)]
  /\ UNCHANGED <<sheet, codeSheet, lock, cache, op, values, attempt, local,
                 scr, msg, err, obs, tobs, sheet_penalty, penalty_lock>>

\* A miss runs the function body.
GlMiss(t) ==
  /\ pc[t] = "gl_call"
  /\ cache.code = Miss
  /\ pc' = [pc EXCEPT ![t] = "gl_read"]
  /\ UNCHANGED <<sheet, codeSheet, lock, cache, op, values, attempt, local,
                 scr, ret, msg, err, obs, tobs, sheet_penalty, penalty_lock>>

\* Mutant: the except clause returns str(None) instead of "".
AcellResultNone(ok) == IF ok THEN A1 ELSE <<"N", "o", "n", "e">>

\* value = code_sheet.acell("A1").value or "";  except: return ""
AcellResult(ok) == IF ok THEN A1 ELSE <<>>

\* The body of get_latest_code: the cell read succeeds or raises; the bare
\* except catches whatever it raises.
GlRead(t) ==
  /\ pc[t] = "gl_read"
  /\ \E ok \in BOOLEAN :
       /\ local' = [local EXCEPT ![t].value = AcellResult(ok)]
       /\ obs' = [obs EXCEPT !.faults = @ \/ ~ok]
       /\ err' = [err EXCEPT ![t] = IF ok THEN "none" ELSE Other]
  /\ pc' = [pc EXCEPT ![t] = "gl_store"]
  /\ UNCHANGED <<sheet, codeSheet, lock, cache, op, values, attempt, scr, ret,
                 msg, tobs, sheet_penalty, penalty_lock>>

\* The value the body returned is stored in the cache and returned.
GlStore(t) ==
  /\ pc[t] = "gl_store"
  /\ cache' = [cache EXCEPT !.code = local[t].value]
  /\ ret' = [ret EXCEPT ![t] = local[t].value]
  /\ local' = [local EXCEPT ![t] = NoLocal]
  /\ err' = [err EXCEPT ![t] = "none"]
  /\ pc' = [pc EXCEPT ![t] = AfterGetLatestCode(t)]
  /\ UNCHANGED <<sheet, codeSheet, lock, op, values, attempt, scr, msg, obs,
                 tobs, sheet_penalty, penalty_lock>>

GetLatestCode(t) ==
  \/ GlHit(t)
  \/ GlMiss(t)
  \/ GlRead(t)
  \/ GlStore(t)

\* ------------------------------------------------------ get_attendance_df
\* The rows append_once has written so far: the last ones of the sheet.
Written == SubSeq(sheet, Len(sheet) - Len(obs.writers) + 1, Len(sheet))

\* The admin dashboard calls get_attendance_df().
CallGetAttendanceDf(t) ==
  /\ pc[t] = "idle"
  /\ op' = [op EXCEPT ![t] = "get_attendance_df"]
  /\ pc' = [pc EXCEPT ![t] = "df_call"]
  /\ tobs' = [tobs EXCEPT ![t].rows_before = Written]
  /\ UNCHANGED <<sheet, codeSheet, lock, cache, values, attempt, local, scr,
                 ret, msg, err, obs, sheet_penalty, penalty_lock>>

\* @st.cache_data(ttl=300): a hit returns the cached frame.
DfHit(t) ==
  /\ pc[t] = "df_call"
  /\ cache.df # {}
  /\ ret' = [ret EXCEPT ![t] = CHOOSE df \in cache.df : TRUE]
  /\ pc' = [pc EXCEPT ![t] = "done"]
  /\ UNCHANGED <<sheet, codeSheet, lock, cache, op, values, attempt, local,
                 scr, msg, err, obs, tobs, sheet_penalty, penalty_lock>>

\* A miss runs the function body.
DfMiss(t) ==
  /\ pc[t] = "df_call"
  /\ cache.df = {}
  /\ pc' = [pc EXCEPT ![t] = "df_read"]
  /\ UNCHANGED <<sheet, codeSheet, lock, cache, op, values, attempt, local,
                 scr, ret, msg, err, obs, tobs, sheet_penalty, penalty_lock>>

\* pd.DataFrame(sheet.get_all_records()); an empty frame if there are no
\* records or the read raises.
GetAllRecordsResult(ok) == IF ok THEN sheet ELSE <<>>

\* The body of get_attendance_df: the read succeeds or raises; the except
\* clause reports the error and returns an empty frame.
DfRead(t) ==
  /\ pc[t] = "df_read"
  /\ \E ok \in BOOLEAN :
       /\ local' = [local EXCEPT ![t].value = GetAllRecordsResult(ok)]
       /\ obs' = [obs EXCEPT !.faults = @ \/ ~ok]
       /\ err' = [err EXCEPT ![t] = IF ok THEN "none" ELSE Other]
  /\ pc' = [pc EXCEPT ![t] = "df_store"]
  /\ UNCHANGED <<sheet, codeSheet, lock, cache, op, values, attempt, scr, ret,
                 msg, tobs, sheet_penalty, penalty_lock>>

\* The frame the body returned is stored in the cache and returned.
DfStore(t) ==
  /\ pc[t] = "df_store"
  /\ cache' = [cache EXCEPT !.df = {local[t].value}]
  /\ ret' = [ret EXCEPT ![t] = local[t].value]
  /\ local' = [local EXCEPT ![t] = NoLocal]
  /\ pc' = [pc EXCEPT ![t] = "done"]
  /\ UNCHANGED <<sheet, codeSheet, lock, op, values, attempt, scr, msg, err,
                 obs, tobs, sheet_penalty, penalty_lock>>

GetAttendanceDf(t) ==
  \/ DfHit(t)
  \/ DfMiss(t)
  \/ DfRead(t)
  \/ DfStore(t)

\* --------------------------------------------------------- submit handler
\* The attendance form is submitted.  member_ok: the name and personal code
\* match the roster; filled: partner (PRESENT) or absence reason (ABSENT) is
\* not blank.  A PRESENT submission goes on to compare the attendance code,
\* an ABSENT one straight to append_once.
CallSubmit(t) ==
  /\ pc[t] = "idle"
  /\ op' = [op EXCEPT ![t] = "submit"]
  /\ \E name \in Names, member_ok \in BOOLEAN, status \in Statuses,
        filled \in BOOLEAN, attendance_input \in Codes :
       LET row == [status |-> status,
                   token |-> daily_token(name, CHOOSE d \in Days : TRUE)]
       IN CASE ~member_ok ->
                 /\ msg' = [msg EXCEPT ![t] = "error_member"]
                 /\ pc' = [pc EXCEPT ![t] = "done"]
                 /\ UNCHANGED <<values, scr, attempt, sheet_penalty,
                                penalty_lock>>
            [] member_ok /\ ~filled ->
                 /\ msg' = [msg EXCEPT ![t] = "error_blank"]
                 /\ pc' = [pc EXCEPT ![t] = "done"]
                 /\ UNCHANGED <<values, scr, attempt, sheet_penalty,
                                penalty_lock>>
            [] member_ok /\ filled /\ status = "PRESENT" ->
                 /\ values' = [values EXCEPT ![t] = row]
                 /\ scr' = [scr EXCEPT
                              ![t].input_code = strip(attendance_input)]
                 /\ pc' = [pc EXCEPT ![t] = "gl_call"]
                 /\ UNCHANGED <<msg, attempt, sheet_penalty, penalty_lock>>
            [] member_ok /\ filled /\ status = "ABSENT" ->
                 /\ values' = [values EXCEPT ![t] = row]
                 /\ attempt' = [attempt EXCEPT ![t] = 1]
                 /\ pc' = [pc EXCEPT ![t] = "ao_lock"]
                 /\ UNCHANGED <<msg, scr, sheet_penalty, penalty_lock>>
  /\ UNCHANGED <<sheet, codeSheet, lock, cache, local, ret, err, obs, tobs,
                 sheet_penalty, penalty_lock>>

\* saved_code = str(get_latest_code()).strip()
\* if input_code != saved_code: st.error(...)  else: append_once(sheet, values)
SbCompare(t) ==
  /\ pc[t] = "sb_compare"
  /\ scr' = [scr EXCEPT ![t].saved_code = strip(ret[t]),
                        ![t].compared = TRUE]
  /\ IF scr[t].input_code # strip(ret[t])
       THEN /\ msg' = [msg EXCEPT ![t] = "error_code"]
            /\ pc' = [pc EXCEPT ![t] = "done"]
            /\ UNCHANGED attempt
       ELSE /\ attempt' = [attempt EXCEPT ![t] = 1]
            /\ pc' = [pc EXCEPT ![t] = "ao_lock"]
            /\ UNCHANGED msg
  /\ ret' = [ret EXCEPT ![t] = "none"]
  /\ UNCHANGED <<sheet, codeSheet, lock, cache, op, values, local, err, obs,
                 tobs, sheet_penalty, penalty_lock>>

\* if ok: st.success(...)  else: st.error(...); an exception out of
\* append_once ends the handler.
SbResult(t) ==
  /\ pc[t] = "sb_result"
  /\ msg' = [msg EXCEPT ![t] =
               CASE ret[t] = "True" -> "success"
                 [] ret[t] = "False" -> "error_save"
                 [] OTHER -> "exception"]
  /\ pc' = [pc EXCEPT ![t] = "done"]
  /\ UNCHANGED <<sheet, codeSheet, lock, cache, op, values, attempt, local,
                 scr, ret, err, obs, tobs, sheet_penalty, penalty_lock>>

Submit(t) ==
  \/ SbCompare(t)
  \/ SbResult(t)

Min(S) == CHOOSE x \in S : \A y \in S : x <= y

\* Script runs start out alike, so the next one to start is the lowest
\* numbered one that has not started, among the first n.
Starts(t, n) == t <= n /\ \A s \in 1..(t - 1) : pc[s] # "idle"

\* ------------------------------------------------- append_once on its own
Next ==
  \/ \E t \in Threads : Starts(t, MaxCalls) /\ CallAppendOnce(t)
  \/ \E t \in Threads : AppendOnce(t)
  \/ CacheExpire

Spec == Init /\ [][Next]_vars

\* ---------------------------------------------------------- the code store
NextCode ==
  \/ \E t \in Threads : Starts(t, MaxCodeCalls) /\ CallSetCode(t)
  \/ \E t \in Threads : SetCode(t)
  \/ \E t \in Threads : Starts(t, MaxCodeCalls) /\ CallGetLatestCode(t)
  \/ \E t \in Threads : GetLatestCode(t)
  \/ CacheExpire

SpecCode == Init /\ [][NextCode]_vars

\* --------------------------------- both retry loops: appends and rotations
Appender(t) == t = Min(Threads)
Rotator(t) == t = Min(Threads \ {Min(Threads)})
\* One script run appends while another rotates the code.
NextRetry ==
  \/ \E t \in Threads : Appender(t) /\ CallAppendOnce(t)
  \/ \E t \in Threads : AppendOnce(t)
  \/ \E t \in Threads : Rotator(t) /\ CallSetCode(t)
  \/ \E t \in Threads : SetCode(t)

SpecRetry == InitRetry /\ [][NextRetry]_vars

\* The same with the scheduling the calls rely on: every thread that can
\* take a step does so in the end (each remote call returns or raises, each
\* sleep ends), and a thread waiting for sheet_lock gets it if the lock
\* is free again and again.
SpecLive ==
  /\ InitRetry
  /\ [][NextRetry]_vars
  /\ \A t \in Threads :
       /\ WF_vars(AppendOnce(t) \/ SetCode(t))
       /\ SF_vars(AoAcquire(t) \/ ScAcquire(t) \/ SaAcquire(t))

\* ------------------------------- the page: submissions and code rotation
NextApp ==
  \/ \E t \in Threads : Starts(t, MaxCalls) /\ CallSubmit(t)
  \/ \E t \in Threads : Submit(t)
  \/ \E t \in Threads : GetLatestCode(t)
  \/ \E t \in Threads : AppendOnce(t)
  \/ \E t \in Threads : Starts(t, MaxCalls) /\ CallSetCode(t)
  \/ \E t \in Threads : SetCode(t)
  \/ CacheExpire

SpecApp == Init /\ [][NextApp]_vars

\* ------------------------------------------- the form: submissions only
\* The page started with a code sheet that is empty or holds the code an
\* admin saved earlier.
InitSubmit ==
  /\ sheet = <<>>
  /\ codeSheet \in {<<>>, <<[code |-> <<"1">>]>>}
  /\ lock = NoThread
  /\ cache = CacheCleared
  /\ pc = [t \in Threads |-> "idle"]
  /\ op = [t \in Threads |-> "none"]
  /\ values = [t \in Threads |-> <<>>]
  /\ attempt = [t \in Threads |-> 0]
  /\ local = [t \in Threads |-> NoLocal]
  /\ scr = [t \in Threads |-> NoScr]
  /\ ret = [t \in Threads |-> "none"]
  /\ msg = [t \in Threads |-> "none"]
  /\ err = [t \in Threads |-> "none"]
  /\ obs = NoObs
  /\ tobs = [t \in Threads |-> NoTobs]
  /\ sheet_penalty = <<>>
  /\ penalty_lock = NoThread

\* Two members submit the attendance form; no admin is at work.
NextSubmit ==
  \/ \E t \in Threads : Starts(t, 2) /\ CallSubmit(t)
  \/ \E t \in Threads : Submit(t)
  \/ \E t \in Threads : GetLatestCode(t)
  \/ \E t \in Threads : AppendOnce(t)
  \/ CacheExpire

SpecSubmit == InitSubmit /\ [][NextSubmit]_vars

\* ------------------------------------- readers of the code and one admin
\* Script runs read the code while one admin rotates it.
NextRead ==
  \/ \E t \in Threads : ~Rotator(t) /\ CallGetLatestCode(t)
  \/ \E t \in Threads : GetLatestCode(t)
  \/ \E t \in Threads : Rotator(t) /\ CallSetCode(t)
  \/ \E t \in Threads : SetCode(t)
  \/ CacheExpire

SpecRead == InitSubmit /\ [][NextRead]_vars

\* ----------------------------------------------------- failure classifier
\* Text is a sequence of characters.  str.lower() on the letters that occur.
LowerCase ==
  [c \in {"D", "E", "F", "I", "L", "Q", "R"} |->
     CASE c = "D" -> "d"
       [] c = "E" -> "e"
       [] c = "F" -> "f"
       [] c = "I" -> "i"
       [] c = "L" -> "l"
       [] c = "Q" -> "q"
       [] c = "R" -> "r"]
lower(s) ==
  [i \in 1..Len(s) |-> IF s[i] \in DOMAIN LowerCase THEN LowerCase[s[i]]
                                                    ELSE s[i]]

\* h in msg
Contains(s, h) ==
  \E i \in 0..(Len(s) - Len(h)) : SubSeq(s, i + 1, i + Len(h)) = h

\* _RETRY_HINTS of the attendance page.
RETRY_HINTS ==
  {<<"r", "a", "t", "e", " ", "l", "i", "m", "i", "t">>,
   <<"q", "u", "o", "t", "a">>,
   <<"b", "a", "c", "k", "e", "n", "d", "E", "r", "r", "o", "r">>,
   <<"i", "n", "t", "e", "r", "n", "a", "l", " ", "e", "r", "r", "o", "r">>,
   <<"t", "i", "m", "e", "o", "u", "t">>,
   <<"4", "2", "9">>,
   <<"5", "0", "3">>,
   <<"5", "0", "0">>}

\* _RETRY_HINTS of the penalty page.
PENALTY_RETRY_HINTS ==
  {<<"r", "a", "t", "e", " ", "l", "i", "m", "i", "t">>,
   <<"q", "u", "o", "t", "a">>,
   <<"b", "a", "c", "k", "e", "n", "d", "e", "r", "r", "o", "r">>,
   <<"i", "n", "t", "e", "r", "n", "a", "l", " ", "e", "r", "r", "o", "r">>,
   <<"t", "i", "m", "e", "o", "u", "t">>,
   <<"4", "2", "9">>,
   <<"5", "0", "3">>,
   <<"5", "0", "0">>}

\* The four further signals both pages test for.
MORE_HINTS ==
  {<<"d", "e", "a", "d", "l", "i", "n", "e">>,
   <<"s", "o", "c", "k", "e", "t">>,
   <<"r", "a", "t", "e", "l", "i", "m", "i", "t", "e", "x", "c", "e", "e", "d", "e", "d">>,
   <<"q", "u", "o", "t", "a", "e", "x", "c", "e", "e", "d", "e", "d">>}

\* transient = any(h in msg for h in _RETRY_HINTS) or "deadline" in msg ...
\* with msg = str(e).lower(), on the attendance page.
transient(e) ==
  LET m == lower(e)
  IN \/ \E h \in RETRY_HINTS : Contains(m, h)
     \/ \E h \in MORE_HINTS : Contains(m, h)

\* The same test on the penalty page.
penalty_transient(e) ==
  LET m == lower(e)
  IN \/ \E h \in PENALTY_RETRY_HINTS : Contains(m, h)
     \/ \E h \in MORE_HINTS : Contains(m, h)

\* Pieces of the messages an APIError can carry, spelt as the remote API
\* spells them; a message is up to MaxPieces of them in a row.
Pieces ==
  {<<"b", "a", "c", "k", "e", "n", "d", "E", "r", "r", "o", "r">>,
   <<"I", "n", "t", "e", "r", "n", "a", "l", " ", "e", "r", "r", "o", "r">>,
   <<"Q", "u", "o", "t", "a">>,
   <<"R", "a", "t", "e", " ", "L", "i", "m", "i", "t">>,
   <<"D", "e", "a", "d", "l", "i", "n", "e">>,
   <<"F", "o", "r", "b", "i", "d", "d", "e", "n">>,
   <<"n", "o", "t", "F", "o", "u", "n", "d">>,
   <<"4", "2", "9">>,
   <<"5", "0", "0">>,
   <<"5", "0", "3">>}
MaxPieces == 2
RECURSIVE Flatten(_)
Flatten(ps) == IF ps = <<>> THEN <<>> ELSE Head(ps) \o Flatten(Tail(ps))
Messages ==
  {Flatten(ps) : ps \in UNION {[1..n -> Pieces] : n \in 0..MaxPieces}}

\* Exception classes the remote call raises.
ExcClasses ==
  {"APIError", "Timeout", "ConnectionError", "RequestException", "KeyError"}

\* What the except clauses of append_once do with exception class c carrying
\* message e while attempts remain: "retry" (sleep, continue) or "raise".
Classify(c, e) ==
  IF c = "APIError" THEN (IF transient(e) THEN "retry" ELSE "raise")
                    ELSE "retry"

\* The same for safe_append_row of the penalty page, whose clauses are
\* APIError, TimeoutError and Exception.
PenaltyClassify(c, e) ==
  IF c = "APIError" THEN (IF penalty_transient(e) THEN "retry" ELSE "raise")
                    ELSE "retry"

\* A remote call of a script run raises an exception of class c with
\* message e on an attempt that is not the last; both pages' clauses are
\* applied to it.
ClassifyError(t) ==
  /\ pc[t] = "idle"
  /\ \E c \in ExcClasses, e \in Messages :
       /\ c # "APIError" => e = <<>>
       /\ values' = [values EXCEPT ![t] = [class |-> c, message |-> e]]
       /\ ret' = [ret EXCEPT ![t] = [attendance |-> Classify(c, e),
                                     penalty |-> PenaltyClassify(c, e)]]
  /\ op' = [op EXCEPT ![t] = "classify"]
  /\ pc' = [pc EXCEPT ![t] = "done"]
  /\ UNCHANGED <<sheet, codeSheet, lock, cache, attempt, local, scr, msg, err,
                 obs, tobs, sheet_penalty, penalty_lock>>

NextClassify == \E t \in Threads : t = Min(Threads) /\ ClassifyError(t)

SpecClassify == Init /\ [][NextClassify]_vars

\* ---------------------------------- existing_tokens beside an append_once
\* One script run appends a row while others read the token set.
NextExisting ==
  \/ \E t \in Threads : Appender(t) /\ CallAppendOnce(t)
  \/ \E t \in Threads : AppendOnce(t)
  \/ \E t \in Threads : ~Appender(t) /\ CallExistingTokens(t)
  \/ \E t \in Threads : ExistingTokens(t)
  \/ CacheExpire

SpecExisting == InitRetry /\ [][NextExisting]_vars

\* ---------------------------------------- the dashboard beside append_once
\* One script run appends a row while admin sessions load the dashboard.
NextDashboard ==
  \/ \E t \in Threads : Appender(t) /\ CallAppendOnce(t)
  \/ \E t \in Threads : AppendOnce(t)
  \/ \E t \in Threads : ~Appender(t) /\ CallGetAttendanceDf(t)
  \/ \E t \in Threads : GetAttendanceDf(t)
  \/ CacheExpire

SpecDashboard == InitRetry /\ [][NextDashboard]_vars

\* ------------------------------------------------------------ penalty page
\* What the admin can submit: a name (typed_name, stripped; may be blank), a
\* reason (blank or not) and a score.
PenaltyNames == Names \cup {<<>>}
Points == {-1, -2}

\* int(df.loc[df["name"] == name, "score"].sum())
RECURSIVE calc_total_for_name(_, _)
calc_total_for_name(name, df) ==
  IF df = <<>> THEN 0
  ELSE (IF Head(df).name = name THEN Head(df).point ELSE 0)
         + calc_total_for_name(name, Tail(df))

\* The row the handler builds from the loaded frame:
\* [now, name, reason_val, point_val, int(total_score)]
PenaltyRow(in, df_now) ==
  [name |-> in.name, point |-> in.point,
   total |-> calc_total_for_name(in.name, df_now) + in.point]

\* The penalty_add_form is submitted.  A blank name or reason is refused.
CallPenaltySubmit(t) ==
  /\ pc[t] = "idle"
  /\ op' = [op EXCEPT ![t] = "penalty"]
  /\ \E name \in PenaltyNames, reason_ok \in BOOLEAN, point_val \in Points :
       IF name = <<>> \/ ~reason_ok
         THEN /\ msg' = [msg EXCEPT ![t] = "error"]
              /\ pc' = [pc EXCEPT ![t] = "done"]
              /\ UNCHANGED values
         ELSE /\ values' = [values EXCEPT
                             ![t] = [name |-> name, point |-> point_val]]
              /\ pc' = [pc EXCEPT ![t] = "pn_load"]
              /\ UNCHANGED msg
  /\ UNCHANGED <<sheet, codeSheet, lock, cache, attempt, local, scr, ret,
                 err, obs, tobs, sheet_penalty, penalty_lock>>

\* df_now = load_penalties_df(): @st.cache_data(ttl=60), a hit returns the
\* cached frame; the handler computes total_score and calls
\* safe_append_row: attempt = 1.
PnLoadHit(t) ==
  /\ pc[t] = "pn_load"
  /\ cache.penalties # {}
  /\ values' = [values EXCEPT
                 ![t] = PenaltyRow(@, CHOOSE df \in cache.penalties : TRUE)]
  /\ attempt' = [attempt EXCEPT ![t] = 1]
  /\ pc' = [pc EXCEPT ![t] = "ps_lock"]
  /\ UNCHANGED <<sheet, codeSheet, lock, cache, op, local, scr, ret, msg,
                 err, obs, tobs, sheet_penalty, penalty_lock>>

\* A miss runs the body of load_penalties_df.
PnLoadMiss(t) ==
  /\ pc[t] = "pn_load"
  /\ cache.penalties = {}
  /\ pc' = [pc EXCEPT ![t] = "pn_read"]
  /\ UNCHANGED <<sheet, codeSheet, lock, cache, op, values, attempt, local,
                 scr, ret, msg, err, obs, tobs, sheet_penalty, penalty_lock>>

\* rows = _sheet.get_all_records(): nothing catches what it raises, neither
\* in load_penalties_df nor in the handler, whose try starts later.
PnRead(t) ==
  /\ pc[t] = "pn_read"
  /\ \E ok \in BOOLEAN :
       IF ok
         THEN /\ local' = [local EXCEPT ![t].value = sheet_penalty]
              /\ pc' = [pc EXCEPT ![t] = "pn_store"]
              /\ UNCHANGED <<msg, obs>>
         ELSE /\ msg' = [msg EXCEPT ![t] = "exception"]
              /\ obs' = [obs EXCEPT !.faults = TRUE]
              /\ pc' = [pc EXCEPT ![t] = "done"]
              /\ UNCHANGED local
  /\ UNCHANGED <<sheet, codeSheet, lock, cache, op, values, attempt, scr,
                 ret, err, tobs, sheet_penalty, penalty_lock>>

\* The frame the body returned is stored in the cache and returned; the
\* handler computes total_score and calls safe_append_row: attempt = 1.
PnStore(t) ==
  /\ pc[t] = "pn_store"
  /\ cache' = [cache EXCEPT !.penalties = {local[t].value}]
  /\ values' = [values EXCEPT ![t] = PenaltyRow(@, local[t].value)]
  /\ local' = [local EXCEPT ![t] = NoLocal]
  /\ attempt' = [attempt EXCEPT ![t] = 1]
  /\ pc' = [pc EXCEPT ![t] = "ps_lock"]
  /\ UNCHANGED <<sheet, codeSheet, lock, op, scr, ret, msg, err, obs, tobs,
                 sheet_penalty, penalty_lock>>

\* The except clauses of the penalty page's safe_append_row:
\*   APIError: transient and attempt < max_retries -> sleep, continue;
\*             else raise
\*   TimeoutError, and any other Exception:
\*             attempt < max_retries -> sleep, continue; else return False
PenaltyOnException(k, a) ==
  CASE k = ApiTransient -> IF a < MaxRetries THEN "sleep" ELSE "raise"
    [] k = ApiPermanent -> "raise"
    [] OTHER -> IF a < MaxRetries THEN "sleep" ELSE "False"

\* with sheet_lock:   (the lock of the penalty page)
PsAcquire(t) ==
  /\ pc[t] = "ps_lock"
  /\ penalty_lock = NoThread
  /\ penalty_lock' = t
  /\ pc' = [pc EXCEPT ![t] = "ps_append"]
  /\ UNCHANGED <<sheet, codeSheet, lock, cache, op, values, attempt, local,
                 scr, ret, msg, err, obs, tobs, sheet_penalty>>

\* ws.append_row(row_values, value_input_option="RAW") succeeds; return True
PsAppendOk(t) ==
  /\ pc[t] = "ps_append"
  /\ sheet_penalty' = Append(sheet_penalty, values[t])
  /\ tobs' = [tobs EXCEPT ![t].wrote = @ + 1]
  /\ ret' = [ret EXCEPT ![t] = "True"]
  /\ penalty_lock' = NoThread
  /\ pc' = [pc EXCEPT ![t] = "pn_result"]
  /\ UNCHANGED <<sheet, codeSheet, lock, cache, op, values, attempt, local,
                 scr, msg, err, obs>>

\* ws.append_row raises k: the with block frees the lock and the except
\* clause for k runs.
PsAppendFail(t) ==
  /\ pc[t] = "ps_append"
  /\ \E k \in ErrKinds :
       /\ Caught(t, k)
       /\ IF PenaltyOnException(k, attempt[t]) = "sleep"
            THEN /\ pc' = [pc EXCEPT ![t] = "ps_sleep"]
                 /\ UNCHANGED ret
            ELSE /\ pc' = [pc EXCEPT ![t] = "pn_result"]
                 /\ ret' = [ret EXCEPT
                             ![t] = PenaltyOnException(k, attempt[t])]
  /\ penalty_lock' = NoThread
  /\ UNCHANGED <<sheet, codeSheet, lock, cache, op, values, attempt, local,
                 scr, msg, sheet_penalty>>

\* time.sleep(delay + jitter); continue
PsSleep(t) ==
  /\ pc[t] = "ps_sleep"
  /\ attempt' = [attempt EXCEPT ![t] = @ + 1]
  /\ err' = [err EXCEPT ![t] = "none"]
  /\ pc' = [pc EXCEPT ![t] = "ps_lock"]
  /\ UNCHANGED <<sheet, codeSheet, lock, cache, op, values, local, scr, ret,
                 msg, obs, tobs, sheet_penalty, penalty_lock>>

\* try: safe_append_row(...); st.success(...); st.cache_data.clear()
\* except Exception as e: st.error(...)
\* The value safe_append_row returns is not looked at.
PnResult(t) ==
  /\ pc[t] = "pn_result"
  /\ IF ret[t] = "raise"
       THEN /\ msg' = [msg EXCEPT ![t] = "error"]
            /\ UNCHANGED cache
       ELSE /\ msg' = [msg EXCEPT ![t] = "success"]
            /\ cache' = CacheCleared
  /\ pc' = [pc EXCEPT ![t] = "done"]
  /\ UNCHANGED <<sheet, codeSheet, lock, op, values, attempt, local, scr,
                 ret, err, obs, tobs, sheet_penalty, penalty_lock>>

PenaltySubmit(t) ==
  \/ PnLoadHit(t)
  \/ PnLoadMiss(t)
  \/ PnRead(t)
  \/ PnStore(t)
  \/ PsAcquire(t)
  \/ PsAppendOk(t)
  \/ PsAppendFail(t)
  \/ PsSleep(t)
  \/ PnResult(t)

\* Two admin sessions submit the penalty form.
NextPenalty ==
  \/ \E t \in Threads : Starts(t, 2) /\ CallPenaltySubmit(t)
  \/ \E t \in Threads : PenaltySubmit(t)
  \/ CacheExpire

SpecPenalty == Init /\ [][NextPenalty]_vars

\* ------------------------------------------------------------ daily_token
\* Names as they can be typed into the form, up to MaxNameLen characters:
\* letters, blanks and the separator character.
MaxNameLen == 3
TypedNames == UNION {[1..n -> {"k", SP, "|"}] : n \in 0..MaxNameLen}
\* Day strings as strftime("%Y-%m-%d") yields them (digits and dashes).
DayStrings == {<<"1">>, <<"2">>, <<"1", "-", "2">>}

\* A script run computes daily_token(name, date_key).
CallDailyToken(t) ==
  /\ pc[t] = "idle"
  /\ \E name \in TypedNames, date_str \in DayStrings :
       /\ values' = [values EXCEPT
                       ![t] = [name |-> name, date_str |-> date_str]]
       /\ ret' = [ret EXCEPT ![t] = daily_token(name, date_str)]
  /\ op' = [op EXCEPT ![t] = "daily_token"]
  /\ pc' = [pc EXCEPT ![t] = "done"]
  /\ UNCHANGED <<sheet, codeSheet, lock, cache, attempt, local, scr, msg, err,
                 obs, tobs, sheet_penalty, penalty_lock>>

\* Two script runs, of any two sessions, compute a token each.
NextToken ==
  \E t \in Threads : (Appender(t) \/ Rotator(t)) /\ CallDailyToken(t)

SpecToken == Init /\ [][NextToken]_vars

\* ================================================================ claims
\* Number of rows of the attendance sheet that carry token k.
Count(k) == Cardinality({i \in 1..Len(sheet) : sheet[i].token = k})

\* A call of append_once has returned or raised.
AppendOnceEnded(t) == op[t] = "append_once" /\ pc[t] = "done"

\* C1 (as claimed): for every token the attendance sheet holds at most one
\* row with that token, whatever append_once calls are made and whichever
\* remote calls (token read, append) fail along the way.
C1_AtMostOneRowPerToken == \A k \in Tokens : Count(k) <= 1

\* C2: when no remote call has failed, every append_once call that has
\* ended returned True and the sheet holds exactly one row with its token,
\* however many calls carried that token and however they interleaved.
C2_NoFaultOneRowAllTrue ==
  ~obs.faults =>
    /\ \A k \in Tokens : Count(k) <= 1
    /\ \A t \in Threads :
         AppendOnceEnded(t) => ret[t] = "True" /\ Count(values[t].token) = 1

\* C2 witness: two calls with the same token have both returned True, no
\* remote call failed, and one row was written.
C2_Witness ==
  \E t, u \in Threads :
    /\ t # u
    /\ AppendOnceEnded(t) /\ AppendOnceEnded(u)
    /\ values[t].token = values[u].token
    /\ ret[t] = "True" /\ ret[u] = "True"
    /\ ~obs.faults
    /\ Count(values[t].token) = 1

\* C3 (as claimed): a call whose every attempt up to max_retries failed
\* transiently has returned False (it has not raised) and has written
\* nothing.
C3_ExhaustionReturnsFalse ==
  \A t \in Threads :
    (/\ AppendOnceEnded(t)
     /\ attempt[t] = MaxRetries
     /\ err[t] # "none"
     /\ tobs[t].transient_only)
    => (ret[t] = "False" /\ tobs[t].wrote = 0)

\* C4: a call that failed on its first k >= 1 attempts (k < max_retries)
\* and whose next attempt did not fail has returned True, and it has
\* added exactly one row when that attempt appended (none when that
\* attempt found the token written in the meantime): never two.
C4_RetryThenOneWrite ==
  \A t \in Threads :
    (AppendOnceEnded(t) /\ attempt[t] > 1 /\ err[t] = "none")
    => /\ ret[t] = "True"
       /\ tobs[t].wrote = (IF tobs[t].skipped THEN 0 ELSE 1)
       /\ values[t].token \in SheetTokens

\* C4 witness: a call failed transiently once, then appended its row.
C4_Witness ==
  \E t \in Threads :
    /\ AppendOnceEnded(t)
    /\ attempt[t] = 2
    /\ tobs[t].transient_only
    /\ ret[t] = "True"
    /\ tobs[t].wrote = 1
    /\ ~tobs[t].skipped

\* C5: whenever append_once has returned True for a row with token T, the
\* sheet holds a row with token T; in particular a call that skipped the
\* write did so for a token that is in the sheet.
C5_TrueImpliesPersisted ==
  \A t \in Threads :
    (AppendOnceEnded(t) /\ ret[t] = "True")
    => values[t].token \in SheetTokens

\* C5 witness: a call wrote a new row and returned True, while another
\* call with the same token skipped its write and returned True.
C5_Witness ==
  \E t, u \in Threads :
    /\ AppendOnceEnded(t) /\ ret[t] = "True" /\ tobs[t].wrote = 1
    /\ AppendOnceEnded(u) /\ ret[u] = "True" /\ tobs[u].skipped
    /\ values[t].token = values[u].token

\* A step in which the retry loop of thread t catches an exception.
CatchStep(t) == pc[t] \in {"ao_check", "sa_append"} /\ err'[t] # "none"

\* The thread goes to sleep before another attempt.
Sleeps(t) == pc'[t] \in {"ao_sleep", "sa_sleep"}

C10_DuplicateNoWrite ==
  [][\A t \in Threads :
       (pc[t] = "ao_check" /\ TokenFound(t) /\ pc'[t] # "ao_check")
       => /\ sheet' = sheet
          /\ tobs'[t].wrote = tobs[t].wrote
          /\ ret'[t] = "True"]_vars

\* C10 witness: a call found its token in the sheet and returned True
\* without writing.
C10_Witness ==
  \E t \in Threads :
    /\ AppendOnceEnded(t)
    /\ tobs[t].skipped /\ tobs[t].wrote = 0 /\ ret[t] = "True"
    /\ Count(values[t].token) = 1

\* A code rotation (the save handler) is under way.
Rotating(t) == op[t] = "set_code" /\ pc[t] # "done"

\* C7 (as claimed): once the only code rotation so far has returned success
\* with code v, a get_latest_code() call made after that returns v, also
\* when other get_latest_code calls were under way during the rotation
\* (no remote call has failed).
C7_NextGetReturnsCode ==
  \A g \in Threads :
    (/\ op[g] = "get_latest_code" /\ pc[g] = "done"
     /\ tobs[g].after
     /\ obs.rot = Succeeded
     /\ ~obs.faults)
    => ret[g] = obs.last_code

\* C8 (as claimed): the code sheet holds at most one row, and when no
\* rotation is under way and the rotation that ended last succeeded, cell
\* A1 holds its code.
C8_OneRowHoldsLastCode ==
  /\ Len(codeSheet) <= 1
  /\ ((obs.last_ok /\ \A t \in Threads : ~Rotating(t)) => A1 = obs.last_code)

\* C9 (as claimed): when get_latest_code() returned the empty string to a
\* PRESENT submission, the handler has rejected it: it shows the code
\* error and does not go on to append a row.
C9_EmptyCodeRejects ==
  \A t \in Threads :
    (op[t] = "submit" /\ scr[t].compared /\ scr[t].saved_code = <<>>)
    => (pc[t] = "done" /\ msg[t] = "error_code" /\ tobs[t].wrote = 0)

\* Position of thread t in seq (0 when absent).
Pos(seq, t) ==
  IF \E i \in 1..Len(seq) : seq[i] = t
    THEN CHOOSE i \in 1..Len(seq) : seq[i] = t
    ELSE 0

\* C11: the rows of the attendance sheet are the rows of the calls that
\* appended, and they lie in the order in which the appending attempts
\* acquired the lock.
C11_RowsInLockOrder ==
  /\ Len(obs.writers) = Len(sheet)
  /\ \A i \in 1..Len(obs.writers) :
       /\ sheet[i] = values[obs.writers[i]]
       /\ Pos(obs.acq, obs.writers[i]) > 0
       /\ \A j \in 1..Len(obs.writers) :
            i < j => Pos(obs.acq, obs.writers[i]) < Pos(obs.acq, obs.writers[j])

\* C11 witness: the call that started second wrote the first row, and the
\* call that started first wrote the second row on its second attempt.
C11_Witness ==
  /\ Len(sheet) = 2
  /\ obs.writers = <<2, 1>>
  /\ attempt[1] = 2
  /\ attempt[2] = 1

\* The retry loop of thread t has started: its first attempt waits for
\* the lock.
LoopStarted(t) == pc[t] \in {"ao_lock", "sa_lock"} /\ attempt[t] = 1

\* The retry loop of thread t has ended with True, False or an exception.
LoopEnded(t) ==
  /\ pc[t] \in {"done", "sc_result"}
  /\ ret[t] \in {"True", "False", "raise"}

\* C12: with fair granting of the lock and remote calls that return or
\* raise, every append_once / safe_append_row call that starts ends with
\* True, False or a raised error; it never makes more than max_retries
\* attempts and never sleeps on its last attempt.
C12_CallsFinish ==
  /\ [](\A t \in Threads : attempt[t] <= MaxRetries)
  /\ [](\A t \in Threads :
          pc[t] \in {"ao_sleep", "sa_sleep"} => attempt[t] < MaxRetries)
  /\ \A t \in Threads : LoopStarted(t) ~> LoopEnded(t)

\* C12 witness: an append_once call has ended with False on its last
\* attempt while a safe_append_row call, on its last attempt too, waits for
\* the lock.
C12_Witness ==
  \E t, u \in Threads :
    /\ AppendOnceEnded(t) /\ attempt[t] = MaxRetries /\ ret[t] = "False"
    /\ pc[u] = "sa_lock" /\ attempt[u] = MaxRetries

\* C13: every step leaves each row of the attendance sheet where it is
\* and as it is: rows are only added, below the others.
C13_AppendOnly ==
  [][/\ Len(sheet') >= Len(sheet)
     /\ \A i \in 1..Len(sheet) : sheet'[i] = sheet[i]]_vars

\* C13 witness: a member was recorded PRESENT, then submitted ABSENT on the
\* same day and was shown success: the sheet still holds the PRESENT row
\* alone.
C13_Witness ==
  \E t, u \in Threads :
    /\ op[t] = "submit" /\ pc[t] = "done" /\ msg[t] = "success"
    /\ op[u] = "submit" /\ pc[u] = "done" /\ msg[u] = "success"
    /\ values[t].status = "PRESENT" /\ values[u].status = "ABSENT"
    /\ values[t].token = values[u].token
    /\ tobs[u].skipped
    /\ scr[t].saved_code # <<>>
    /\ sheet = <<values[t]>>

\* A get_latest_code call of thread t has returned to its caller.
GetLatestCodeEnded(t) == op[t] = "get_latest_code" /\ pc[t] = "done"

\* C14: get_latest_code never raises.  When the read of A1 raises, the
\* body yields the empty string; when the read succeeds it yields the
\* cell's value, the empty string for an empty sheet; and the call returns
\* a string to its caller.
C14_NeverRaises ==
  /\ [](\A t \in Threads :
          (pc[t] = "gl_store" /\ err[t] # "none") => local[t].value = <<>>)
  /\ [](\A t \in Threads :
          GetLatestCodeEnded(t) => ret[t] # "raise" /\ ret[t] \in Codes)
  /\ [][\A t \in Threads :
          (pc[t] = "gl_read" /\ pc'[t] = "gl_store" /\ err'[t] = "none")
          => local'[t].value =
               (IF Len(codeSheet) = 0 THEN <<>> ELSE codeSheet[1].code)]_vars

\* C14 witness: the code sheet holds a code, a read of it has failed and
\* the call has returned the empty string.
C14_Witness ==
  \E t \in Threads :
    /\ GetLatestCodeEnded(t)
    /\ ret[t] = <<>>
    /\ cache.code = <<>>
    /\ Len(codeSheet) = 1
    /\ \A u \in Threads : op[u] # "set_code"

\* The message mentions, in whatever letter case, one of the signals the
\* pages list as transient.
Indicated(e) ==
  \E h \in RETRY_HINTS \cup PENALTY_RETRY_HINTS \cup MORE_HINTS :
    Contains(lower(e), lower(h))

\* C15 (as claimed): an APIError whose message mentions one of the
\* transient signals is retried, Timeout, ConnectionError and
\* RequestException are retried, and both pages decide alike.
C15_ClassifierAsDescribed ==
  \A t \in Threads :
    (op[t] = "classify" /\ pc[t] = "done")
    => /\ ret[t].attendance = ret[t].penalty
       /\ (values[t].class = "APIError" /\ Indicated(values[t].message))
            => ret[t].attendance = "retry" /\ ret[t].penalty = "retry"
       /\ values[t].class \in {"Timeout", "ConnectionError", "RequestException"}
            => ret[t].attendance = "retry" /\ ret[t].penalty = "retry"

\* A daily_token call of thread t has returned.
TokenEnded(t) == op[t] = "daily_token" /\ pc[t] = "done"

\* C16: two daily_token calls return the same token exactly when their
\* names agree after strip() and their day strings agree, whichever script
\* runs make the calls.
C16_TokenOfStrippedNameAndDay ==
  \A t, u \in Threads :
    (TokenEnded(t) /\ TokenEnded(u))
    => (ret[t] = ret[u]
        <=> /\ strip(values[t].name) = strip(values[u].name)
            /\ values[t].date_str = values[u].date_str)

\* C16 witness: two runs typed the name with and without blanks around it
\* and got the same token for the same day.
C16_Witness ==
  \E t, u \in Threads :
    /\ TokenEnded(t) /\ TokenEnded(u)
    /\ values[t].name = <<SP, "k", SP>>
    /\ values[u].name = <<"k">>
    /\ values[t].date_str = values[u].date_str
    /\ ret[t] = ret[u]

\* C17 (as claimed): whichever way the body of existing_tokens reads the
\* sheet (token column, or all records when there is no column index), and
\* also when a read raises, it yields the tokens of the sheet's rows.
C17_ExistingTokensExact ==
  [][\A t \in Threads :
       (pc[t] = "ex_read" /\ pc'[t] = "ex_store")
       => local'[t].tokens = SheetTokens]_vars

\* Positions at which a thread is inside a 'with sheet_lock' block: the
\* remote calls of append_once, code_sheet.clear() and the append_row of
\* safe_append_row.
InsideLock == {"ao_col", "ao_read", "ao_check", "sc_clear", "sa_append"}

\* The step changes a worksheet.
Mutates == sheet' # sheet \/ codeSheet' # codeSheet

\* C18: a thread about to clear or append holds sheet_lock, so no two
\* threads are at a remote mutation at once, and every step that changes
\* a worksheet is taken by the holder of the lock.
C18_MutationsUnderLock ==
  /\ [](\A t \in Threads : pc[t] \in InsideLock => lock = t)
  /\ [](\A t, u \in Threads :
          (pc[t] \in InsideLock /\ pc[u] \in InsideLock) => t = u)
  /\ [][Mutates => (lock # NoThread /\ pc[lock] \in InsideLock
                    /\ pc'[lock] \notin InsideLock)]_vars

\* C18 witness: the admin's run is at the append of the code while a
\* member's append_once waits for the lock.
C18_Witness ==
  \E t, u \in Threads :
    /\ pc[t] = "sa_append" /\ lock = t
    /\ pc[u] = "ao_lock" /\ attempt[u] = 1

\* C19: while append_once decides, the tokens it read in this lock hold
\* are the tokens of the sheet (no append came in between), whatever the
\* caches hold; so after a token read that succeeded the row it appends
\* carries a token no row of the sheet carries.
C19_FreshReadDecides ==
  /\ [](\A t \in Threads :
          (pc[t] = "ao_check" /\ local[t].read_ok)
          => local[t].tokens = SheetTokens)
  /\ [][\A t \in Threads :
          (/\ pc[t] = "ao_check" /\ pc'[t] # "ao_check"
           /\ local[t].read_ok
           /\ sheet' # sheet)
          => /\ values[t].token \notin SheetTokens
             /\ sheet' = Append(sheet, values[t])]_vars

\* C19 witness: the column index in the cache is the None of an earlier
\* lookup, a call reads the tokens all the same and finds the token
\* another call has appended.
C19_Witness ==
  \E t, u \in Threads :
    /\ t # u
    /\ AppendOnceEnded(u) /\ tobs[u].wrote = 1
    /\ pc[t] = "ao_check" /\ local[t].read_ok
    /\ cache.col = NoneIdx
    /\ values[t].token = values[u].token
    /\ TokenFound(t)

\* C20: a thread holds sheet_lock only inside a with block: it does not
\* hold it while it sleeps before a retry, nor once the call has returned
\* or raised; and whenever no thread is inside a with block the lock is
\* free for a waiting writer.
C20_LockOnlyInsideAttempt ==
  /\ \A t \in Threads : pc[t] \notin InsideLock => lock # t
  /\ (\A t \in Threads : pc[t] \notin InsideLock) => lock = NoThread

\* C20 witness: a writer sleeps before its retry while another thread has
\* taken the lock in the meantime.
C20_Witness ==
  \E t, u \in Threads :
    /\ pc[t] = "ao_sleep"
    /\ lock = u /\ pc[u] = "sa_append"

\* ------------------------------------------------------------------- C21
GetAttendanceDfEnded(t) == op[t] = "get_attendance_df" /\ pc[t] = "done"

\* The rows of sequence s all occur in sequence f.
Includes(f, s) == \A i \in 1..Len(s) : \E j \in 1..Len(f) : f[j] = s[i]

\* C21: a dashboard read that began after append_once wrote a row and
\* returned True, and whose own read of the sheet did not fail, returns a
\* frame that includes that row.
C21_ReadAfterAppendIncludesRow ==
  \A t \in Threads :
    (GetAttendanceDfEnded(t) /\ err[t] = "none")
      => Includes(ret[t], tobs[t].rows_before)

\* ------------------------------------------------------------------- C22
SetCodeEnded(t) == op[t] = "set_code" /\ pc[t] = "done"

\* C22: when a rotation ends without success (the clear raised, or the
\* append raised or ran out of attempts) and nothing else wrote the code
\* sheet, cell A1 still holds the code it held when the rotation began.
C22_FailedRotationKeepsCode ==
  \A t \in Threads :
    (SetCodeEnded(t) /\ msg[t] # "success")
      => /\ Len(codeSheet) = Len(tobs[t].rows_before)
         /\ \A i \in 1..Len(codeSheet) :
              codeSheet[i].code = tobs[t].rows_before[i].code

\* ------------------------------------------------------------------- C23
PenaltyEnded(t) == op[t] = "penalty" /\ pc[t] = "done"

\* C23: a penalty submission that ended with the success message appended
\* its row to the penalty sheet.
C23_SuccessOnlyIfAppended ==
  \A t \in Threads :
    (PenaltyEnded(t) /\ msg[t] = "success") => tobs[t].wrote = 1

\* ------------------------------------------------------------------- C24
\* C24: in every row of the penalty sheet the cumulative score is the sum
\* of the scores of the rows for the same name up to and including it.
C24_CumulativeIsRunningSum ==
  \A i \in 1..Len(sheet_penalty) :
    sheet_penalty[i].total
      = calc_total_for_name(sheet_penalty[i].name, SubSeq(sheet_penalty, 1, i))

====
